---- MODULE Spec2Model ----
(***************************************************************************)
(* Model of plugins/modules/address.py: one Ansible task that reconciles   *)
(* an iRedMail alias row and a forwarding row with the desired state.      *)
(*                                                                         *)
(* Strings are sequences of one-character strings, so that the regular     *)
(* expression of email() is computed on them.  None is the empty sequence  *)
(* and a supplied value v is <<v>>.  A date string is <<day>> ("Y-m-d") or *)
(* <<day, sec>> ("Y-m-d H:M:S"); a DATETIME value of the database is a     *)
(* record [day, sec].  The database columns modelled are the ones the      *)
(* module's SQL names.                                                     *)
(***************************************************************************)
EXTENDS Integers, Sequences, FiniteSets, TLC

VARIABLES
    args,           \* the task's raw parameters (module.params before parsing)
    params,         \* module.params after create_ansible_module
    check_mode,     \* module.check_mode of the running invocation
    pc,             \* position in main()
    db,             \* committed content of the alias and forwardings tables
    tx,             \* the tables as seen by the open transaction
    changed,        \* main's local
    db_alias,       \* main's local
    db_forwarding,  \* main's local
    outcome,        \* how the invocation ended
    result,         \* what exit_json reported
    log,            \* connection use: connected, statements, commits, rollbacks
    clock,          \* the database server's now()
    pre,            \* committed tables when the invocation started
    prev            \* the previous invocation of the same task

vars == <<args, params, check_mode, pc, db, tx, changed, db_alias, db_forwarding,
          outcome, result, log, clock, pre, prev>>

-----------------------------------------------------------------------------
(* Bounds *)

\* the latest value of now() a behaviour reaches
MaxClock == 2

-----------------------------------------------------------------------------
(* Values *)

None == <<>>

Some(v) == <<v>>

\* Python's {} (main's initial db_alias and db_forwarding)
EmptyDict == [empty |-> TRUE]

\* expired = "9999-12-31" of create_alias
NeverDay == 9999

BoolToInt(b) == IF b THEN 1 ELSE 0

\* str(datetime): always prints the time of day
StrDatetime(dt) == <<dt.day, dt.sec>>

\* the server's conversion of a date string to DATETIME: a missing time is midnight
ParseDatetime(s) == [day |-> s[1], sec |-> IF Len(s) >= 2 THEN s[2] ELSE 0]

-----------------------------------------------------------------------------
(* email(): the address pattern *)

Letters == {"a", "b", "c", "d", "e", "f", "n", "A"}

Digits == {"1"}

\* \w
WordChars == Letters \cup Digits \cup {"_"}

\* [A-Z0-9._%+-] under IGNORECASE
LocalClass == Letters \cup Digits \cup {".", "_", "%", "+", "-"}

\* [A-Z0-9.-] under IGNORECASE
DomainClass == Letters \cup Digits \cup {".", "-"}

\* the first position from `from` on whose character is not in class C
\* (Len(s) + 1 when there is none): where a greedy C+ stops
RunEnd(s, C, from) ==
    CHOOSE p \in from..(Len(s) + 1) :
        /\ p = Len(s) + 1 \/ s[p] \notin C
        /\ \A q \in from..(p - 1) : s[q] \in C

MaxOf(S) == CHOOSE x \in S : \A y \in S : y <= x

\* the end i of the local part: \b, then [A-Z0-9._%+-]+ up to the "@" (0: no match)
LocalEnd(s) ==
    LET i == RunEnd(s, LocalClass, 1) - 1
    IN  IF Len(s) >= 1 /\ s[1] \in WordChars /\ i >= 1 /\ i + 1 <= Len(s) /\ s[i + 1] = "@"
        THEN i ELSE 0

\* the <<j, k>> at which the rest of the pattern matches after a local part 1..i:
\* domain labels i+2..j, "." at j+1, top-level letters j+2..k, \b after k
DomainMatches(s, i) ==
    LET e == RunEnd(s, DomainClass, i + 2) - 1
    IN  {m \in ((i + 2)..e) \X ((i + 2)..e) :
            /\ m[1] + 1 <= e /\ s[m[1] + 1] = "."
            /\ m[2] >= m[1] + 3
            /\ \A p \in (m[1] + 2)..m[2] : s[p] \in Letters
            /\ (m[2] = Len(s) \/ s[m[2] + 1] \notin WordChars)}

\* the match re.match returns: the quantifiers are greedy, so the longest domain
\* part that lets the rest match, then the longest top-level part
GreedyMatch(ms) ==
    LET jmax == MaxOf({m[1] : m \in ms})
    IN  <<jmax, MaxOf({m[2] : m \in {x \in ms : x[1] = jmax}})>>

Parsed(s, i, m) ==
    [address |-> SubSeq(s, 1, m[2]),
     name |-> SubSeq(s, 1, i),
     domain |-> SubSeq(s, i + 2, m[2])]

\* email() on a string: ValueError unless the pattern matches a prefix of it
email_match(value) ==
    IF LocalEnd(value[1]) = 0 \/ DomainMatches(value[1], LocalEnd(value[1])) = {}
    THEN [raises |-> TRUE, value |-> None]
    ELSE [raises |-> FALSE,
          value |-> Some(Parsed(value[1], LocalEnd(value[1]),
                                GreedyMatch(DomainMatches(value[1], LocalEnd(value[1])))))]

\* a plausible slip: the "value is None" early return is missing
email_rejects_none(value) ==
    IF value = None THEN [raises |-> TRUE, value |-> None] ELSE email_match(value)

email(value) ==
    IF value = None THEN [raises |-> FALSE, value |-> None] ELSE email_match(value)

-----------------------------------------------------------------------------
(* The statements the module sends.  A step of a function returns              *)
(* [tx, stmts, failed, changed, row]: the tables as the transaction sees them, *)
(* the statements sent, whether one of them raised, and the function's result. *)
(* f is the position, among the statements the function sends, of the one      *)
(* that raises (0: none does).                                                 *)

\* a statement sent on the cursor, with the rows it matched
Stmt(sql, n) == [sql |-> sql, rows |-> n]

Raised(t, stmts) ==
    [tx |-> t, stmts |-> stmts, failed |-> TRUE, changed |-> FALSE, row |-> EmptyDict]

Returned(t, stmts, c, row) ==
    [tx |-> t, stmts |-> stmts, failed |-> FALSE, changed |-> c, row |-> row]

\* cursor.fetchone() after a SELECT that found rows
fetchone(rows) == CHOOSE r \in rows : TRUE

\* SELECT * FROM alias WHERE address=%s
fetch_alias(t, p) == {r \in t.alias : r.address = p.src_address.address}

\* SELECT * FROM forwardings WHERE address=%s AND forwarding=%s
fetch_forwarding(t, p) ==
    {r \in t.forwardings : /\ r.address = p.src_address.address
                           /\ r.forwarding = p.dest_address[1].address}

create_alias(t, p, now, f) ==
    LET name == IF p.name # None THEN p.name[1] ELSE p.src_address.name
        expired == IF p.expired # None THEN p.expired[1] ELSE <<NeverDay>>
        row == [address |-> p.src_address.address,
                name |-> name,
                domain |-> p.src_address.domain,
                created |-> now,
                modified |-> now,
                expired |-> ParseDatetime(expired),
                active |-> BoolToInt(p.active)]
        t1 == [t EXCEPT !.alias = @ \cup {row}]
        insert == Stmt("INSERT alias", 1)
        select == Stmt("SELECT alias", Cardinality(fetch_alias(t1, p)))
    IN  IF f = 1 THEN Raised(t, <<Stmt("INSERT alias", 0)>>)
        ELSE IF f = 2 THEN Raised(t1, <<insert, Stmt("SELECT alias", 0)>>)
        ELSE Returned(t1, <<insert, select>>, TRUE, fetchone(fetch_alias(t1, p)))

update_alias(t, p, stored, now, f) ==
    IF \/ (p.name # None /\ stored.name # p.name[1])
       \/ (p.expired # None /\ StrDatetime(stored.expired) # p.expired[1])
       \/ stored.active # BoolToInt(p.active)
    THEN LET name == IF p.name # None THEN p.name[1] ELSE stored.name
             expired == IF p.expired # None THEN ParseDatetime(p.expired[1])
                                            ELSE stored.expired
             hit == fetch_alias(t, p)
             new(r) == [r EXCEPT !.name = name, !.modified = now,
                                 !.expired = expired, !.active = BoolToInt(p.active)]
             t1 == [t EXCEPT !.alias = (@ \ hit) \cup {new(r) : r \in hit}]
             update == Stmt("UPDATE alias", Cardinality(hit))
             select == Stmt("SELECT alias", Cardinality(fetch_alias(t1, p)))
         IN  IF f = 1 THEN Raised(t, <<Stmt("UPDATE alias", 0)>>)
             ELSE IF f = 2 THEN Raised(t1, <<update, Stmt("SELECT alias", 0)>>)
             ELSE Returned(t1, <<update, select>>, TRUE, fetchone(fetch_alias(t1, p)))
    ELSE Returned(t, <<>>, FALSE, stored)

create_or_update_alias(t, p, now, f) ==
    LET found == fetch_alias(t, p)
        select == Stmt("SELECT alias", Cardinality(found))
        rest == IF found # {}
                THEN update_alias(t, p, fetchone(found), now, IF f = 0 THEN 0 ELSE f - 1)
                ELSE create_alias(t, p, now, IF f = 0 THEN 0 ELSE f - 1)
    IN  IF f = 1 THEN Raised(t, <<Stmt("SELECT alias", 0)>>)
        ELSE [rest EXCEPT !.stmts = <<select>> \o @]

\* a plausible slip: the is_forwarding column is not compared
forwarding_stale_ignores_is_forwarding(r, p) ==
    \/ r.active # BoolToInt(p.active)
    \/ r.domain # p.src_address.domain
    \/ r.dest_domain # p.dest_address[1].domain
    \/ r.is_alias # BoolToInt(p.state = "alias")

\* the comparison of the stored forwarding row with the desired one
forwarding_stale(r, p) ==
    \/ r.active # BoolToInt(p.active)
    \/ r.domain # p.src_address.domain
    \/ r.dest_domain # p.dest_address[1].domain
    \/ r.is_alias # BoolToInt(p.state = "alias")
    \/ r.is_forwarding = BoolToInt(p.state = "alias")

create_forwarding(t, p, f) ==
    LET src == p.src_address
        dest == p.dest_address[1]
        found == fetch_forwarding(t, p)
        select == Stmt("SELECT forwardings", Cardinality(found))
        is_alias == p.state = "alias"
        row == [address |-> src.address,
                forwarding |-> dest.address,
                domain |-> src.domain,
                dest_domain |-> dest.domain,
                is_alias |-> BoolToInt(is_alias),
                is_forwarding |-> BoolToInt(~is_alias),
                active |-> BoolToInt(p.active)]
        new(r) == [r EXCEPT !.domain = src.domain, !.dest_domain = dest.domain,
                            !.active = BoolToInt(p.active),
                            !.is_alias = BoolToInt(is_alias),
                            !.is_forwarding = BoolToInt(~is_alias)]
        t1 == IF found = {}
              THEN [t EXCEPT !.forwardings = @ \cup {row}]
              ELSE [t EXCEPT !.forwardings = (@ \ found) \cup {new(r) : r \in found}]
        write == IF found = {} THEN Stmt("INSERT forwardings", 1)
                               ELSE Stmt("UPDATE forwardings", Cardinality(found))
        again == Stmt("SELECT forwardings", Cardinality(fetch_forwarding(t1, p)))
    IN  IF f = 1 THEN Raised(t, <<Stmt("SELECT forwardings", 0)>>)
        ELSE IF found # {} /\ ~forwarding_stale(fetchone(found), p)
        THEN Returned(t, <<select>>, FALSE, fetchone(found))
        ELSE IF f = 2 THEN Raised(t, <<select, [write EXCEPT !.rows = 0]>>)
        ELSE IF f = 3 THEN Raised(t1, <<select, write, Stmt("SELECT forwardings", 0)>>)
        ELSE Returned(t1, <<select, write, again>>, TRUE, fetchone(fetch_forwarding(t1, p)))

\* a plausible slip: the second DELETE is skipped when the first one matched rows
delete_all_short_circuit(t, p, f) ==
    LET address == p.src_address.address
        aliases == {r \in t.alias : r.address = address}
        forwards == {r \in t.forwardings : r.address = address}
        t1 == [t EXCEPT !.alias = @ \ aliases]
        t2 == [t1 EXCEPT !.forwardings = @ \ forwards]
        first == Stmt("DELETE alias", Cardinality(aliases))
        second == Stmt("DELETE forwardings", Cardinality(forwards))
    IN  IF f = 1 THEN Raised(t, <<Stmt("DELETE alias", 0)>>)
        ELSE IF first.rows > 0 THEN Returned(t1, <<first>>, TRUE, EmptyDict)
        ELSE IF f = 2 THEN Raised(t1, <<first, Stmt("DELETE forwardings", 0)>>)
        ELSE Returned(t2, <<first, second>>, second.rows > 0, EmptyDict)

\* delete() without dest_address: both DELETE statements, in order
delete_all(t, p, f) ==
    LET address == p.src_address.address
        aliases == {r \in t.alias : r.address = address}
        forwards == {r \in t.forwardings : r.address = address}
        t1 == [t EXCEPT !.alias = @ \ aliases]
        t2 == [t1 EXCEPT !.forwardings = @ \ forwards]
        first == Stmt("DELETE alias", Cardinality(aliases))
        second == Stmt("DELETE forwardings", Cardinality(forwards))
    IN  IF f = 1 THEN Raised(t, <<Stmt("DELETE alias", 0)>>)
        ELSE IF f = 2 THEN Raised(t1, <<first, Stmt("DELETE forwardings", 0)>>)
        ELSE Returned(t2, <<first, second>>,
                      first.rows > 0 \/ second.rows > 0, EmptyDict)

\* a plausible slip: the WHERE clause does not name the destination
delete_pair_any_destination(t, p, f) ==
    LET rows == {r \in t.forwardings : r.address = p.src_address.address}
        t1 == [t EXCEPT !.forwardings = @ \ rows]
    IN  IF f = 1 THEN Raised(t, <<Stmt("DELETE forwardings", 0)>>)
        ELSE Returned(t1, <<Stmt("DELETE forwardings", Cardinality(rows))>>,
                      Cardinality(rows) > 0, EmptyDict)

\* delete() with dest_address: the one DELETE of the pair
delete_pair(t, p, f) ==
    LET pair == fetch_forwarding(t, p)
        t1 == [t EXCEPT !.forwardings = @ \ pair]
    IN  IF f = 1 THEN Raised(t, <<Stmt("DELETE forwardings", 0)>>)
        ELSE Returned(t1, <<Stmt("DELETE forwardings", Cardinality(pair))>>,
                      Cardinality(pair) > 0, EmptyDict)

delete(t, p, f) ==
    IF p.dest_address = None THEN delete_all(t, p, f) ELSE delete_pair(t, p, f)

-----------------------------------------------------------------------------
(* The task's parameters and the tables it may find *)

\* "a@b.cc"
SrcA == <<"a", "@", "b", ".", "c", "c">>

\* "e@f.cc"
DestE == <<"e", "@", "f", ".", "c", "c">>

\* another source address and another destination, present in the tables only
SrcD == <<"d", "@", "b", ".", "c", "c">>

DestN == <<"n", "@", "f", ".", "c", "c">>

\* strings the pattern rejects: no "@", a one-letter top level, a word character
\* right after the top level, a local part that starts with "."
Malformed ==
    {<<"a", "b">>,
     <<"a", "@", "b", ".", "c">>,
     <<"a", "@", "b", ".", "c", "c", "1">>,
     <<".", "a", "@", "b", ".", "c", "c">>}

\* a string the pattern accepts by its prefix "e@f.cc"
DestETrailing == DestE \o <<"!", "x">>

States == {"alias", "forwarding", "absent"}

Names == {<<"n">>}

ExpiredStrings == {<<NeverDay>>, <<2025>>, <<2025, 0>>}

Optional(S) == {None} \cup {Some(v) : v \in S}

\* delete() reads neither name, expired nor active, and without the alias step
\* nothing reads name or expired: there these parameters keep their defaults
AliasArgs ==
    [src_address : {Some(SrcA)}, dest_address : Optional({DestE}), state : {"alias"},
     name : Optional(Names), expired : Optional(ExpiredStrings), active : BOOLEAN]

ForwardingArgs ==
    [src_address : {Some(SrcA)}, dest_address : Optional({DestE}), state : {"forwarding"},
     name : {None}, expired : {None}, active : BOOLEAN]

AbsentArgs ==
    [src_address : {Some(SrcA)}, dest_address : Optional({DestE}), state : {"absent"},
     name : {None}, expired : {None}, active : {TRUE}]

MalformedArgs ==
    [src_address : Optional(Malformed) \ {None}, dest_address : {None},
     state : {"alias"}, name : {None}, expired : {None}, active : {TRUE}]
    \cup
    [src_address : {Some(SrcA)}, dest_address : Optional(Malformed) \ {None},
     state : {"alias"}, name : {None}, expired : {None}, active : {TRUE}]

TrailingArgs ==
    [src_address : {Some(SrcA)}, dest_address : {Some(DestETrailing)},
     state : States, name : {None}, expired : {None}, active : {TRUE}]

ArgsSet == AliasArgs \cup ForwardingArgs \cup AbsentArgs \cup MalformedArgs \cup TrailingArgs

\* email() of every address string a task may carry, computed once
ParsedAddresses ==
    [v \in {a.src_address : a \in ArgsSet} \cup {a.dest_address : a \in ArgsSet} |-> email(v)]

Domain(address) == email(Some(address)).value[1].domain

AliasRow(address, name, day, active) ==
    [address |-> address, name |-> name, domain |-> Domain(address),
     created |-> 0, modified |-> 0, expired |-> [day |-> day, sec |-> 0],
     active |-> active]

ForwardingRow(address, forwarding, domain, is_alias, is_forwarding, active) ==
    [address |-> address, forwarding |-> forwarding, domain |-> domain,
     dest_domain |-> Domain(forwarding), is_alias |-> is_alias,
     is_forwarding |-> is_forwarding, active |-> active]

\* the alias table holds at most one row per address
InitAlias ==
    {{}, {AliasRow(SrcA, <<"a">>, NeverDay, 1)}, {AliasRow(SrcA, <<"a">>, NeverDay, 0)},
     {AliasRow(SrcA, <<"n">>, 2025, 1)}}

\* the forwardings table holds at most one row per (address, forwarding); the two
\* flags of a row written by other software may take any values
InitForwardings ==
    {{}}
    \cup {{ForwardingRow(SrcA, DestE, Domain(SrcA), a, f, 1)} : a \in {0, 1}, f \in {0, 1}}
    \cup {{ForwardingRow(SrcA, DestE, Domain(SrcD) \o <<"c">>, 1, 0, 0)}}

OtherAlias == {AliasRow(SrcD, <<"d">>, NeverDay, 1)}

OtherForwardings ==
    {ForwardingRow(SrcA, DestN, Domain(SrcA), 1, 0, 1),
     ForwardingRow(SrcD, DestE, Domain(SrcD), 0, 1, 1)}

InitDBs ==
    {[alias |-> a, forwardings |-> f] : a \in InitAlias, f \in InitForwardings}
    \cup {[alias |-> a \cup OtherAlias, forwardings |-> f \cup OtherForwardings] :
            a \in InitAlias, f \in InitForwardings}

-----------------------------------------------------------------------------
(* State *)

NoParams == [parsed |-> FALSE]

NoResult == [failed |-> TRUE]

NoPrev == [outcome |-> "none"]

NoLog == [connected |-> FALSE, stmts |-> <<>>, commits |-> 0, rollbacks |-> 0]

Init ==
    /\ args \in ArgsSet
    /\ db \in InitDBs
    /\ tx = db
    /\ pre = db
    /\ params = NoParams
    /\ check_mode = FALSE
    /\ pc = "idle"
    /\ changed = FALSE
    /\ db_alias = EmptyDict
    /\ db_forwarding = EmptyDict
    /\ outcome = "none"
    /\ result = NoResult
    /\ log = NoLog
    /\ clock = 1
    /\ prev = NoPrev

\* the invocation that just ended, as the next one remembers it
Ended ==
    IF outcome = "ok"
    THEN [outcome |-> outcome, check_mode |-> check_mode, result |-> result,
          now |-> clock]
    ELSE NoPrev

-----------------------------------------------------------------------------
(* main() *)

\* a new invocation of the task: AnsibleModule(...), then both addresses are parsed
CreateAnsibleModule ==
    /\ pc \in {"idle", "exit"}
    /\ LET src == ParsedAddresses[args.src_address]
           dest == ParsedAddresses[args.dest_address]
       IN \E cm \in BOOLEAN, has_community_mysql \in BOOLEAN,
             tick \in IF pc = "exit" THEN {0, 1} ELSE {0} :
            /\ clock + tick <= MaxClock
            /\ clock' = clock + tick
            /\ check_mode' = cm
            /\ prev' = IF pc = "exit" THEN Ended ELSE prev
            /\ pre' = db
            /\ tx' = db
            /\ changed' = FALSE
            /\ db_alias' = EmptyDict
            /\ db_forwarding' = EmptyDict
            /\ result' = NoResult
            /\ log' = NoLog
            /\ IF src.raises \/ dest.raises
               THEN /\ params' = NoParams
                    /\ outcome' = "invalid_address"
                    /\ pc' = "exit"
               ELSE /\ params' = [src_address |-> src.value[1],
                                  dest_address |-> dest.value,
                                  state |-> args.state,
                                  name |-> args.name,
                                  expired |-> args.expired,
                                  active |-> args.active]
                    /\ IF has_community_mysql
                       THEN outcome' = "running" /\ pc' = "module"
                       ELSE outcome' = "missing_lib" /\ pc' = "exit"
    /\ UNCHANGED <<args, db>>

\* db_connect: a transaction is open on the connection from here on
DbConnect ==
    /\ pc = "module"
    /\ \E ok \in BOOLEAN :
        IF ok
        THEN /\ log' = [log EXCEPT !.connected = TRUE]
             /\ pc' = "connected"
             /\ UNCHANGED outcome
        ELSE /\ outcome' = "connect_failed"
             /\ pc' = "exit"
             /\ UNCHANGED log
    /\ tx' = db
    /\ changed' = FALSE
    /\ db_alias' = EmptyDict
    /\ db_forwarding' = EmptyDict
    /\ UNCHANGED <<args, params, check_mode, db, result, clock, pre, prev>>

\* a plausible slip: the alias step runs for every state but "absent"
alias_requested_unless_absent(p) == p.state # "absent"

\* module.params['state'] == "alias"
alias_requested(p) == p.state = "alias"

\* a plausible slip: changed = changed_forwarding
merge_changed_overwrites(c, changed_forwarding) == changed_forwarding

\* changed = changed or changed_forwarding
merge_changed(c, changed_forwarding) == c \/ changed_forwarding

Sent(stmts) == [log EXCEPT !.stmts = @ \o stmts]

\* state == "absent": delete() is not guarded, an exception ends the process and
\* the server drops the open transaction with the connection
Delete ==
    /\ pc = "connected"
    /\ params.state = "absent"
    /\ \E f \in 0..2 :
        LET r == delete(tx, params, f)
        IN  /\ f = 0 \/ r.failed
            /\ log' = Sent(r.stmts)
            /\ IF r.failed
               THEN /\ tx' = db
                    /\ outcome' = "exception"
                    /\ pc' = "exit"
                    /\ UNCHANGED changed
               ELSE /\ tx' = r.tx
                    /\ changed' = r.changed
                    /\ pc' = "reconciled"
                    /\ UNCHANGED outcome
    /\ UNCHANGED <<args, params, check_mode, db, db_alias, db_forwarding, result,
                   clock, pre, prev>>

\* db_connection.rollback(); module.fail_json(...)
RollbackAndFail(stmts) ==
    /\ log' = [log EXCEPT !.stmts = @ \o stmts, !.rollbacks = @ + 1]
    /\ tx' = db
    /\ outcome' = "db_error"
    /\ pc' = "exit"

\* state == "alias": changed, db_alias = create_or_update_alias(...)
CreateOrUpdateAlias ==
    /\ pc = "connected"
    /\ params.state # "absent"
    /\ alias_requested(params)
    /\ \E f \in 0..3 :
        LET r == create_or_update_alias(tx, params, clock, f)
        IN  /\ f = 0 \/ r.failed
            /\ IF r.failed
               THEN /\ RollbackAndFail(r.stmts)
                    /\ UNCHANGED <<changed, db_alias>>
               ELSE /\ log' = Sent(r.stmts)
                    /\ tx' = r.tx
                    /\ changed' = r.changed
                    /\ db_alias' = r.row
                    /\ pc' = "alias_done"
                    /\ UNCHANGED outcome
    /\ UNCHANGED <<args, params, check_mode, db, db_forwarding, result, clock, pre, prev>>

\* main is past its alias step
AfterAlias ==
    \/ pc = "alias_done"
    \/ pc = "connected" /\ params.state # "absent" /\ ~alias_requested(params)

\* dest_address is not None: changed = changed or changed_forwarding
CreateForwarding ==
    /\ AfterAlias
    /\ params.dest_address # None
    /\ \E f \in 0..3 :
        LET r == create_forwarding(tx, params, f)
        IN  /\ f = 0 \/ r.failed
            /\ IF r.failed
               THEN /\ RollbackAndFail(r.stmts)
                    /\ UNCHANGED <<changed, db_forwarding>>
               ELSE /\ log' = Sent(r.stmts)
                    /\ tx' = r.tx
                    /\ changed' = merge_changed(changed, r.changed)
                    /\ db_forwarding' = r.row
                    /\ pc' = "reconciled"
                    /\ UNCHANGED outcome
    /\ UNCHANGED <<args, params, check_mode, db, db_alias, result, clock, pre, prev>>

\* a plausible slip: check_mode is not consulted
finalize_always_commits ==
    /\ log' = [log EXCEPT !.commits = @ + 1]
    /\ db' = tx
    /\ tx' = tx

finalize_transaction ==
    IF check_mode
    THEN /\ log' = [log EXCEPT !.rollbacks = @ + 1]
         /\ tx' = db
         /\ db' = db
    ELSE /\ log' = [log EXCEPT !.commits = @ + 1]
         /\ db' = tx
         /\ tx' = tx

FinalizeTransaction ==
    /\ \/ pc = "reconciled"
       \/ AfterAlias /\ params.dest_address = None
    /\ finalize_transaction
    /\ pc' = "finalized"
    /\ UNCHANGED <<args, params, check_mode, changed, db_alias, db_forwarding,
                   outcome, result, clock, pre, prev>>

\* module.exit_json(changed=changed, alias=db_alias, forwarding=db_forwarding)
ExitJson ==
    /\ pc = "finalized"
    /\ result' = [changed |-> changed, alias |-> db_alias, forwarding |-> db_forwarding]
    /\ outcome' = "ok"
    /\ pc' = "exit"
    /\ UNCHANGED <<args, params, check_mode, db, tx, changed, db_alias, db_forwarding,
                   log, clock, pre, prev>>

Next ==
    \/ CreateAnsibleModule
    \/ DbConnect
    \/ Delete
    \/ CreateOrUpdateAlias
    \/ CreateForwarding
    \/ FinalizeTransaction
    \/ ExitJson

Spec == Init /\ [][Next]_vars

-----------------------------------------------------------------------------
(* Properties *)

\* the invocation reported a result through exit_json
Done == pc = "exit" /\ outcome = "ok"

\* the invocation ended because a statement raised
StatementFailed == pc = "exit" /\ outcome \in {"db_error", "exception"}

SrcRows(t) == {r \in t.alias : r.address = params.src_address.address}

SrcForwardings(t) == {r \in t.forwardings : r.address = params.src_address.address}

PairRows(t) ==
    {r \in SrcForwardings(t) : r.forwarding = params.dest_address[1].address}

\* the statements of this invocation whose text is in sqls
SentAny(sqls) == \E n \in 1..Len(log.stmts) : log.stmts[n].sql \in sqls

\* some statement in sqls matched at least one row
WroteAny(sqls) ==
    \E n \in 1..Len(log.stmts) : log.stmts[n].sql \in sqls /\ log.stmts[n].rows > 0

AliasWrites == {"INSERT alias", "UPDATE alias", "DELETE alias"}

ForwardingWrites == {"INSERT forwardings", "UPDATE forwardings", "DELETE forwardings"}

\* this invocation and the one before it both ran for real and reported a result
SecondRealRun ==
    /\ Done /\ ~check_mode
    /\ prev.outcome = "ok" /\ ~prev.check_mode

\* C1: the second of two successive real invocations with the same parameters
\* reports changed=false, leaves both tables as they were and returns the rows the
\* first one returned; and a first invocation that finds no row for the source
\* address and has something to create reports changed=true.
C1_Idempotence ==
    /\ SecondRealRun =>
          /\ result.changed = FALSE
          /\ db = pre
          /\ result.alias = prev.result.alias
          /\ result.forwarding = prev.result.forwarding
    /\ ( /\ Done /\ ~check_mode
         /\ SrcRows(pre) = {} /\ SrcForwardings(pre) = {}
         /\ \/ params.state = "alias"
            \/ params.state = "forwarding" /\ params.dest_address # None )
       => result.changed

\* C1 where it holds: expired is not supplied, or supplied in the form str() prints
C1_IdempotenceCanonicalExpired ==
    (args.expired = None \/ Len(args.expired[1]) = 2) => C1_Idempotence

C1_Witness ==
    /\ SecondRealRun
    /\ prev.result.changed
    /\ params.state = "alias"
    /\ args.expired # None /\ Len(args.expired[1]) = 2

\* C2: a check-mode invocation never commits and ends with a rollback, so the
\* committed tables stay as they were; and what it reports is what a real
\* invocation with the same parameters, at the same time, on the same tables
\* reports, in particular changed=true and the would-be rows when nothing existed.
C2_CheckMode ==
    /\ (check_mode /\ pc # "idle") => (log.commits = 0 /\ db = pre)
    /\ (Done /\ check_mode) => (log.rollbacks = 1 /\ tx = pre)
    /\ ( /\ Done /\ ~check_mode
         /\ prev.outcome = "ok" /\ prev.check_mode /\ prev.now = clock )
       => result = prev.result
    /\ ( /\ Done /\ check_mode /\ params.state = "alias" /\ SrcRows(pre) = {} )
       => /\ result.changed
          /\ result.alias # EmptyDict
          /\ result.alias.address = params.src_address.address
          /\ result.alias.created = clock
          /\ SrcRows(db) = {}
    /\ ( /\ Done /\ check_mode /\ params.state # "absent"
         /\ params.dest_address # None /\ PairRows(pre) = {} )
       => /\ result.changed
          /\ result.forwarding # EmptyDict
          /\ result.forwarding.forwarding = params.dest_address[1].address
          /\ PairRows(db) = {}

C2_Witness ==
    /\ Done /\ ~check_mode
    /\ prev.outcome = "ok" /\ prev.check_mode /\ prev.now = clock
    /\ prev.result.changed
    /\ prev.result.alias # EmptyDict /\ prev.result.forwarding # EmptyDict
    /\ SrcRows(pre) = {} /\ SrcRows(db) # {}

\* C3: an invocation in which a statement raised ended with a rollback and without
\* a commit, and the committed tables are what they were before it.
C3_AllOrNothing ==
    StatementFailed => (log.rollbacks >= 1 /\ log.commits = 0 /\ db = pre)

\* C3 where it holds: nothing is committed on any failure, and the two guarded
\* functions roll back
C3_NothingCommitted ==
    /\ StatementFailed => (log.commits = 0 /\ db = pre)
    /\ (pc = "exit" /\ outcome = "db_error") => log.rollbacks = 1

\* C4: state=absent without a destination removes the alias row and every
\* forwarding row of the source address, touches no other row, sends both DELETE
\* statements, and reports changed exactly when a row of the address existed.
C4_DeleteAll ==
    ( /\ Done /\ ~check_mode
      /\ params.state = "absent" /\ params.dest_address = None )
    => /\ SrcRows(db) = {} /\ SrcForwardings(db) = {}
       /\ db.alias \ SrcRows(db) = pre.alias \ SrcRows(pre)
       /\ db.forwardings \ SrcForwardings(db) = pre.forwardings \ SrcForwardings(pre)
       /\ SentAny({"DELETE alias"}) /\ SentAny({"DELETE forwardings"})
       /\ result.changed <=> (SrcRows(pre) # {} \/ SrcForwardings(pre) # {})

C4_Witness ==
    /\ Done /\ ~check_mode
    /\ params.state = "absent" /\ params.dest_address = None
    /\ SrcRows(pre) # {} /\ SrcForwardings(pre) # {}
    /\ db.alias # {} /\ db.forwardings # {}

\* C5: state=absent with a destination removes exactly the forwarding row of the
\* pair, leaves the alias table and every other forwarding row as they were, and
\* reports changed exactly when the row existed.
C5_DeleteOne ==
    ( /\ Done /\ ~check_mode
      /\ params.state = "absent" /\ params.dest_address # None )
    => /\ db.alias = pre.alias
       /\ db.forwardings = pre.forwardings \ PairRows(pre)
       /\ result.changed <=> (PairRows(pre) # {})

C5_Witness ==
    /\ Done /\ ~check_mode
    /\ params.state = "absent" /\ params.dest_address # None
    /\ PairRows(pre) # {}
    /\ SrcRows(db) # {} /\ SrcForwardings(db) # {}

\* the forwarding row the parameters ask for
WantedForwarding ==
    [address |-> params.src_address.address,
     forwarding |-> params.dest_address[1].address,
     domain |-> params.src_address.domain,
     dest_domain |-> params.dest_address[1].domain,
     is_alias |-> IF params.state = "alias" THEN 1 ELSE 0,
     is_forwarding |-> IF params.state = "alias" THEN 0 ELSE 1,
     active |-> IF params.active THEN 1 ELSE 0]

\* C6: after a real invocation with a destination and state alias or forwarding,
\* the row of the pair exists with the flags of the state, the requested active and
\* the parsed domains, whatever it was before; it is the row returned; with state
\* alias an alias row of the source address exists too.
C6_ForwardingConverges ==
    ( /\ Done /\ ~check_mode
      /\ params.state # "absent" /\ params.dest_address # None )
    => /\ PairRows(db) = {WantedForwarding}
       /\ result.forwarding = WantedForwarding
       /\ params.state = "alias" => SrcRows(db) # {}

C6_Witness ==
    /\ Done /\ ~check_mode
    /\ params.state = "alias" /\ params.dest_address # None
    /\ \E r \in PairRows(pre) : r.is_alias = 1 /\ r.is_forwarding = 1

\* C7: an invocation with state=forwarding sends no INSERT, UPDATE or DELETE on
\* the alias table, which stays as it was, and the forwarding row it leaves has
\* is_alias=0 and is_forwarding=1.
C7_ForwardingLeavesAlias ==
    (pc # "idle" /\ args.state = "forwarding")
    => /\ ~SentAny(AliasWrites \cup {"SELECT alias"})
       /\ tx.alias = pre.alias /\ db.alias = pre.alias
       /\ (pc = "reconciled" \/ (Done /\ ~check_mode /\ params.dest_address # None))
          => /\ PairRows(tx) # {}
             /\ \A r \in PairRows(tx) : r.is_alias = 0 /\ r.is_forwarding = 1

C7_Witness ==
    /\ Done /\ ~check_mode /\ args.state = "forwarding"
    /\ params.dest_address # None
    /\ SrcRows(pre) = {}
    /\ \E r \in PairRows(pre) : r.is_alias = 1
    /\ result.changed

\* C8: a malformed src_address or dest_address ends the invocation with the
\* invalid-address error before the connection: no statement, no commit, no
\* rollback; a missing dest_address is accepted.
C8_MalformedAborts ==
    /\ ( /\ pc # "idle"
         /\ \/ args.src_address[1] \in Malformed
            \/ args.dest_address # None /\ args.dest_address[1] \in Malformed )
       => /\ pc = "exit" /\ outcome = "invalid_address"
          /\ ~log.connected /\ log.stmts = <<>>
          /\ log.commits = 0 /\ log.rollbacks = 0
          /\ db = pre /\ tx = pre
    /\ ( /\ pc # "idle"
         /\ args.src_address[1] \notin Malformed /\ args.dest_address = None )
       => outcome # "invalid_address"
    /\ (log.connected \/ log.stmts # <<>>) => outcome # "invalid_address"

C8_Witness ==
    /\ pc = "exit" /\ outcome = "invalid_address"
    /\ args.src_address[1] \notin Malformed
    /\ args.dest_address # None /\ args.dest_address[1] \in Malformed

\* C9: the changed flag reported is true exactly when a statement of the
\* invocation created, updated or deleted a row; with changed=false the tables
\* are what they were before.
C9_ChangedReportsWrites ==
    Done => /\ result.changed <=> WroteAny(AliasWrites \cup ForwardingWrites)
            /\ ~result.changed => db = pre

C9_Witness ==
    /\ Done /\ ~check_mode /\ result.changed
    /\ WroteAny(AliasWrites) /\ ~WroteAny(ForwardingWrites)
    /\ SentAny({"SELECT forwardings"})

\* the stored alias row the alias step found
StoredAlias == CHOOSE r \in SrcRows(pre) : TRUE

\* a supplied field of the task differs from the stored alias row
AliasDiffers ==
    \/ params.name # None /\ params.name[1] # StoredAlias.name
    \/ params.expired # None /\ ParseDatetime(params.expired[1]) # StoredAlias.expired
    \/ (IF params.active THEN 1 ELSE 0) # StoredAlias.active

AliasStepOnStoredRow == pc = "alias_done" /\ SrcRows(pre) # {}

\* C10: with state=alias and a stored alias row, an UPDATE is sent exactly when a
\* supplied name, a supplied expired or the requested active differs from the
\* stored one; then unsupplied fields keep their values and modified is now();
\* otherwise nothing is written and the result is (False, stored row).
C10_DiffBeforeWrite ==
    AliasStepOnStoredRow =>
        /\ SentAny({"UPDATE alias"}) <=> AliasDiffers
        /\ ~SentAny({"INSERT alias", "DELETE alias"})
        /\ SentAny({"UPDATE alias"}) =>
              /\ changed
              /\ db_alias.modified = clock
              /\ params.name = None => db_alias.name = StoredAlias.name
              /\ params.expired = None => db_alias.expired = StoredAlias.expired
              /\ SrcRows(tx) = {db_alias}
        /\ ~SentAny({"UPDATE alias"}) =>
              /\ ~changed
              /\ tx = pre
              /\ db_alias = StoredAlias

\* C10 where it holds: expired is not supplied, or supplied in the form str() prints
C10_DiffBeforeWriteCanonicalExpired ==
    (args.expired = None \/ Len(args.expired[1]) = 2) => C10_DiffBeforeWrite

====
